---- MODULE Spec2Model ----
(***************************************************************************)
(* Bowyer-Watson Delaunay triangulation (bowyer_watson.go).                *)
(*                                                                         *)
(* float64 values are modelled by exact rationals extended with the IEEE   *)
(* special values the code can produce when a triangle is degenerate       *)
(* (division by zero): +Inf, -Inf, NaN and negative zero.  Rounding of     *)
(* finite results is not modelled: every finite operation is exact.        *)
(***************************************************************************)
EXTENDS Integers, Sequences, FiniteSets

(***************************************************************************)
(* Bounds of the model.                                                    *)
(***************************************************************************)
MaxPts == 4
GridMax == 2

(***************************************************************************)
(* float64: [k, n, d].  k = "fin" is the rational n/d in lowest terms with *)
(* d > 0 (n = 0, d = 1 is +0); "nzero" is -0; "pinf", "ninf", "nan".       *)
(***************************************************************************)
Abs(x) == IF x < 0 THEN -x ELSE x

RECURSIVE GCD(_, _)
GCD(a, b) == IF b = 0 THEN a ELSE GCD(b, a % b)

LCM(a, b) == (a \div GCD(a, b)) * b

NaN == [k |-> "nan", n |-> 0, d |-> 1]
PInf == [k |-> "pinf", n |-> 0, d |-> 1]
NInf == [k |-> "ninf", n |-> 0, d |-> 1]
NZero == [k |-> "nzero", n |-> 0, d |-> 1]
PZero == [k |-> "fin", n |-> 0, d |-> 1]

\* the finite value n/d (d # 0), in lowest terms
Fin(n, d) ==
    LET g == GCD(Abs(n), Abs(d))
        s == IF d < 0 THEN -1 ELSE 1
    IN [k |-> "fin", n |-> (s * n) \div g, d |-> Abs(d) \div g]

FromInt(x) == [k |-> "fin", n |-> x, d |-> 1]

IsNaN(v) == v.k = "nan"
IsInf(v) == v.k \in {"pinf", "ninf"}
IsZero(v) == v.k = "nzero" \/ (v.k = "fin" /\ v.n = 0)
\* sign bit
IsNeg(v) == v.k \in {"nzero", "ninf"} \/ (v.k = "fin" /\ v.n < 0)

SignedInf(neg) == IF neg THEN NInf ELSE PInf
SignedZero(neg) == IF neg THEN NZero ELSE PZero

FNeg(v) ==
    CASE v.k = "nan" -> NaN
      [] v.k = "pinf" -> NInf
      [] v.k = "ninf" -> PInf
      [] v.k = "nzero" -> PZero
      [] OTHER -> IF v.n = 0 THEN NZero ELSE [v EXCEPT !.n = -v.n]

FAdd(a, b) ==
    IF IsNaN(a) \/ IsNaN(b) THEN NaN
    ELSE IF IsInf(a) THEN (IF IsInf(b) /\ a.k # b.k THEN NaN ELSE a)
    ELSE IF IsInf(b) THEN b
    ELSE IF IsZero(a) /\ IsZero(b)
         THEN (IF a.k = "nzero" /\ b.k = "nzero" THEN NZero ELSE PZero)
    ELSE IF IsZero(a) THEN b
    ELSE IF IsZero(b) THEN a
    ELSE LET l == LCM(a.d, b.d)
         IN Fin(a.n * (l \div a.d) + b.n * (l \div b.d), l)

FSub(a, b) == FAdd(a, FNeg(b))

FMul(a, b) ==
    LET neg == IsNeg(a) # IsNeg(b) IN
    IF IsNaN(a) \/ IsNaN(b) THEN NaN
    ELSE IF IsInf(a) \/ IsInf(b)
         THEN (IF IsZero(a) \/ IsZero(b) THEN NaN ELSE SignedInf(neg))
    ELSE IF IsZero(a) \/ IsZero(b) THEN SignedZero(neg)
    ELSE LET g1 == GCD(Abs(a.n), b.d)
             g2 == GCD(Abs(b.n), a.d)
         IN [k |-> "fin", n |-> (a.n \div g1) * (b.n \div g2),
                          d |-> (a.d \div g2) * (b.d \div g1)]

FDiv(a, b) ==
    LET neg == IsNeg(a) # IsNeg(b) IN
    IF IsNaN(a) \/ IsNaN(b) THEN NaN
    ELSE IF IsInf(a) THEN (IF IsInf(b) THEN NaN ELSE SignedInf(neg))
    ELSE IF IsInf(b) THEN SignedZero(neg)
    ELSE IF IsZero(b) THEN (IF IsZero(a) THEN NaN ELSE SignedInf(neg))
    ELSE IF IsZero(a) THEN SignedZero(neg)
    ELSE LET g1 == GCD(Abs(a.n), Abs(b.n))
             g2 == GCD(a.d, b.d)
             s == IF b.n < 0 THEN -1 ELSE 1
         IN [k |-> "fin", n |-> s * (a.n \div g1) * (b.d \div g2),
                          d |-> (a.d \div g2) * (Abs(b.n) \div g1)]

\* a < b, a <= b, a = b on finite values (zeros of either sign are equal)
FinLess(a, b) ==
    LET l == LCM(a.d, b.d) IN a.n * (l \div a.d) < b.n * (l \div b.d)

FEq(a, b) ==
    IF IsNaN(a) \/ IsNaN(b) THEN FALSE
    ELSE IF IsInf(a) \/ IsInf(b) THEN a.k = b.k
    ELSE a.n = b.n /\ a.d = b.d

FLt(a, b) ==
    IF IsNaN(a) \/ IsNaN(b) THEN FALSE
    ELSE IF a.k = "pinf" \/ b.k = "ninf" THEN FALSE
    ELSE IF a.k = "ninf" \/ b.k = "pinf" THEN TRUE
    ELSE FinLess(a, b)

FLe(a, b) == FLt(a, b) \/ FEq(a, b)

FGt(a, b) == FLt(b, a)

sqr(x) == FMul(x, x)

\* x > c + math.Sqrt(r2), for r2 >= 0 or special
GtSumSqrt(x, c, r2) ==
    IF IsNaN(x) \/ IsNaN(c) \/ IsNaN(r2) THEN FALSE
    ELSE IF r2.k = "pinf" THEN FALSE
    ELSE IF IsInf(c) \/ IsInf(x) THEN FGt(x, c)
    ELSE LET dx == FSub(x, c)
         IN FGt(dx, PZero) /\ FGt(sqr(dx), r2)


(***************************************************************************)
(* Geometric primitives.  A Point is [X, Y]; the coordinates of the input  *)
(* points and of the super-triangle are integers.  A Triangle is           *)
(* [A, B, C, center, radius2]; the cached radius is math.Sqrt(radius2) and *)
(* is represented by radius2 (see GtSumSqrt).                              *)
(***************************************************************************)
Pt(x, y) == [X |-> x, Y |-> y]

Tri(a, b, c) == [A |-> a, B |-> b, C |-> c]

Edge(a, b) == [A |-> a, B |-> b]

\* func (t *Triangle) CalcCircumCircle()
CalcCircumCircle(t) ==
    LET ax == FromInt(t.A.X)  ay == FromInt(t.A.Y)
        bx == FromInt(t.B.X)  by == FromInt(t.B.Y)
        cx == FromInt(t.C.X)  cy == FromInt(t.C.Y)
        two == FromInt(2)
        ab == FAdd(sqr(ax), sqr(ay))
        cd == FAdd(sqr(bx), sqr(by))
        ef == FAdd(sqr(cx), sqr(cy))
        numX == FAdd(FAdd(FMul(ab, FSub(cy, by)), FMul(cd, FSub(ay, cy))),
                     FMul(ef, FSub(by, ay)))
        denX == FAdd(FAdd(FMul(ax, FSub(cy, by)), FMul(bx, FSub(ay, cy))),
                     FMul(cx, FSub(by, ay)))
        numY == FAdd(FAdd(FMul(ab, FSub(cx, bx)), FMul(cd, FSub(ax, cx))),
                     FMul(ef, FSub(bx, ax)))
        denY == FAdd(FAdd(FMul(ay, FSub(cx, bx)), FMul(by, FSub(ax, cx))),
                     FMul(cy, FSub(bx, ax)))
        centerX == FDiv(FDiv(numX, denX), two)
        centerY == FDiv(FDiv(numY, denY), two)
    IN [A |-> t.A, B |-> t.B, C |-> t.C,
        center |-> [X |-> centerX, Y |-> centerY],
        radius2 |-> FAdd(sqr(FSub(ax, centerX)), sqr(FSub(ay, centerY)))]

\* func (t *Triangle) HasVertex(p Point) bool
HasVertex(t, p) == t.A = p \/ t.B = p \/ t.C = p

\* dist2 of CircumcircleContains
Dist2(t, p) ==
    FAdd(sqr(FSub(FromInt(p.X), t.center.X)), sqr(FSub(FromInt(p.Y), t.center.Y)))

CircumcircleContainsStrict(t, p) == FLt(Dist2(t, p), t.radius2)

\* func (t *Triangle) CircumcircleContains(p Point) bool
CircumcircleContains(t, p) == FLe(Dist2(t, p), t.radius2)

\* func (e1 Edge) isEqual(e2 Edge) bool
isEqual(e1, e2) ==
    (e1.A = e2.A /\ e1.B = e2.B) \/ (e1.A = e2.B /\ e1.B = e2.A)

FinalizeCondNoRadius(t, p) == FGt(FromInt(p.X), t.center.X)

\* p.X > t.center.X+t.radius
FinalizeCond(t, p) == GtSumSqrt(FromInt(p.X), t.center.X, t.radius2)

TouchesSuperNoC(t, s) == HasVertex(t, s.A) \/ HasVertex(t, s.B)

\* negation of the keep test of the final filter
TouchesSuper(t, s) == HasVertex(t, s.A) \/ HasVertex(t, s.B) \/ HasVertex(t, s.C)

\* s[i] = s[n]; s = s[:n]   (1-based i, n = Len(s))
SwapRemove(s, i) ==
    LET n == Len(s)
    IN [m \in 1..(n - 1) |-> IF m = i THEN s[n] ELSE s[m]]

(***************************************************************************)
(* Inputs.                                                                 *)
(***************************************************************************)
Grid == {Pt(x, y) : x \in 0..GridMax, y \in 0..(GridMax - 1)}

\* the super-triangles the caller may pass: one that encloses the grid, and
\* a small one whose vertices are grid points
Supers == {Tri(Pt(1, 7), Pt(8, -4), Pt(-6, -4)),
           Tri(Pt(0, 2), Pt(2, 0), Pt(0, 0))}

\* One input order per multiset of points: the order of the input is only
\* observed through sort.Sort, which may leave equal keys in any order.  The
\* representative order is by Key, which is not the order by X.  Lists of
\* fewer than MaxPts points may repeat a point.
Key(p) == p.Y * (GridMax + 1) + (GridMax - p.X)

Inputs ==
    UNION {{s \in [1..n -> Grid] :
               \A m \in 1..(n - 1) :
                   \/ Key(s[m]) < Key(s[m + 1])
                   \/ (n < MaxPts /\ s[m] = s[m + 1])}
           : n \in 0..MaxPts}

\* func (s pointsByX) Less(i, j int) bool, on the elements
Less(a, b) == a.X < b.X

\* The results sort.Sort(pointsByX(s)) may produce: the orders of the elements
\* of s in which no element is followed by one with a smaller X (the sort is
\* not stable: elements with equal X end in any order).  SortedOrders builds
\* them by choosing, among the elements with index in I, a smallest one first.
RECURSIVE SortedOrders(_, _)
SortedOrders(s, I) ==
    IF I = {} THEN {<<>>}
    ELSE UNION {{<<s[m]>> \o q : q \in SortedOrders(s, I \ {m})}
                : m \in {a \in I : \A b \in I : ~Less(s[b], s[a])}}

SortResults(s) == SortedOrders(s, DOMAIN s)

(***************************************************************************)
(* State of one call of DelaunayTriangulation(points, super).              *)
(***************************************************************************)
VARIABLES
    points,     \* argument
    super,      \* argument
    pts,        \* sorted copy of points
    k,          \* index in pts of the point of the current round
    ts,         \* active triangles
    result,     \* finalized triangles
    edges,      \* candidate edges of the current round
    i,          \* index of the scan loop, then of the final filter
    pc,         \* position in the function
    ts0,        \* history: ts when the current round began
    result0,    \* history: result when the current round began
    seen,       \* history: triangles examined by the scan of this round
    swapIn,     \* history: result[i] was put there by the filter's last removal
    swapPurged  \* history: the filter removed a triangle it had swapped in

vars == <<points, super, pts, k, ts, result, edges, i, pc,
          ts0, result0, seen, swapIn, swapPurged>>

hist == <<ts0, result0, seen, swapIn, swapPurged>>

Init ==
    /\ points \in Inputs
    /\ super \in Supers
    /\ pts = <<>>
    /\ k = 0
    /\ ts = <<>>
    /\ result = <<>>
    /\ edges = <<>>
    /\ i = 0
    /\ pc = "start"
    /\ ts0 = <<>>
    /\ result0 = <<>>
    /\ seen = <<>>
    /\ swapIn = FALSE
    /\ swapPurged = FALSE

\* lines 69-77: circumcircle of super, ts = {super}, sorted copy of points
Start ==
    /\ pc = "start"
    /\ ts' = <<CalcCircumCircle(super)>>
    /\ pts' \in SortResults(points)
    /\ k' = 1
    /\ pc' = "round"
    /\ UNCHANGED <<points, super, result, edges, i, hist>>

\* lines 78-81: next point of the range loop, edges = edges[:0], i := 0
RoundStart ==
    /\ pc = "round"
    /\ k <= Len(pts)
    /\ edges' = <<>>
    /\ i' = 1
    /\ pc' = "scan"
    /\ ts0' = ts
    /\ result0' = result
    /\ seen' = <<>>
    /\ UNCHANGED <<points, super, pts, k, ts, result, swapIn, swapPurged>>

\* lines 83-87: ts[i] can no longer be reached; move it to result
ScanFinalize ==
    /\ pc = "scan"
    /\ i <= Len(ts)
    /\ FinalizeCond(ts[i], pts[k])
    /\ result' = Append(result, ts[i])
    /\ ts' = SwapRemove(ts, i)
    /\ seen' = Append(seen, ts[i])
    /\ UNCHANGED <<points, super, pts, k, edges, i, pc, ts0, result0, swapIn, swapPurged>>

ScanInvalidateAdvance ==
    /\ pc = "scan"
    /\ i <= Len(ts)
    /\ ~FinalizeCond(ts[i], pts[k])
    /\ CircumcircleContains(ts[i], pts[k])
    /\ edges' = edges \o <<Edge(ts[i].A, ts[i].B), Edge(ts[i].A, ts[i].C),
                           Edge(ts[i].B, ts[i].C)>>
    /\ ts' = SwapRemove(ts, i)
    /\ i' = i + 1
    /\ seen' = Append(seen, ts[i])
    /\ UNCHANGED <<points, super, pts, k, result, pc, ts0, result0, swapIn, swapPurged>>

\* lines 88-96: the circumcircle of ts[i] contains p; record its edges, remove it
ScanInvalidate ==
    /\ pc = "scan"
    /\ i <= Len(ts)
    /\ ~FinalizeCond(ts[i], pts[k])
    /\ CircumcircleContains(ts[i], pts[k])
    /\ edges' = edges \o <<Edge(ts[i].A, ts[i].B), Edge(ts[i].A, ts[i].C),
                           Edge(ts[i].B, ts[i].C)>>
    /\ ts' = SwapRemove(ts, i)
    /\ seen' = Append(seen, ts[i])
    /\ UNCHANGED <<points, super, pts, k, result, i, pc, ts0, result0, swapIn, swapPurged>>

\* lines 97-99: ts[i] stays
ScanKeep ==
    /\ pc = "scan"
    /\ i <= Len(ts)
    /\ ~FinalizeCond(ts[i], pts[k])
    /\ ~CircumcircleContains(ts[i], pts[k])
    /\ i' = i + 1
    /\ seen' = Append(seen, ts[i])
    /\ UNCHANGED <<points, super, pts, k, ts, result, edges, pc, ts0, result0, swapIn, swapPurged>>

RECURSIVE DedupInner(_, _, _)
\* lines 103-111: remove every later element equal to es[j]
DedupInner(es, j, n) ==
    IF n > Len(es) THEN es
    ELSE IF ~isEqual(es[j], es[n]) THEN DedupInner(es, j, n + 1)
    ELSE DedupInner(SwapRemove(es, n), j, n)

RECURSIVE DedupOuter(_, _)
\* lines 102-112
DedupOuter(es, j) ==
    IF j > Len(es) THEN es
    ELSE DedupOuter(DedupInner(es, j, j + 1), j + 1)

\* lines 81, 102-112: the scan is over; deduplicate the candidate edges
Dedup ==
    /\ pc = "scan"
    /\ i > Len(ts)
    /\ edges' = DedupOuter(edges, 1)
    /\ pc' = "build"
    /\ UNCHANGED <<points, super, pts, k, ts, result, i, hist>>

\* lines 114-118: one new triangle per remaining edge
Build ==
    /\ pc = "build"
    /\ ts' = ts \o [m \in 1..Len(edges) |->
                      CalcCircumCircle(Tri(edges[m].A, edges[m].B, pts[k]))]
    /\ k' = k + 1
    /\ pc' = "round"
    /\ UNCHANGED <<points, super, pts, result, edges, i, hist>>

\* lines 78, 121: the range loop is over; result = append(result, ts...)
AppendActive ==
    /\ pc = "round"
    /\ k > Len(pts)
    /\ result' = result \o ts
    /\ i' = 1
    /\ pc' = "purge"
    /\ UNCHANGED <<points, super, pts, k, ts, edges, hist>>

\* lines 124-129: result[i] has no vertex of super
PurgeKeep ==
    /\ pc = "purge"
    /\ i <= Len(result)
    /\ ~TouchesSuper(result[i], super)
    /\ i' = i + 1
    /\ swapIn' = FALSE
    /\ UNCHANGED <<points, super, pts, k, ts, result, edges, pc,
                   ts0, result0, seen, swapPurged>>

PurgeRemoveAdvance ==
    /\ pc = "purge"
    /\ i <= Len(result)
    /\ TouchesSuper(result[i], super)
    /\ result' = SwapRemove(result, i)
    /\ i' = i + 1
    /\ swapIn' = (i < Len(result))
    /\ swapPurged' = (swapPurged \/ swapIn)
    /\ UNCHANGED <<points, super, pts, k, ts, edges, pc, ts0, result0, seen>>

\* lines 124-133: result[i] has a vertex of super; overwrite it with the last
PurgeRemove ==
    /\ pc = "purge"
    /\ i <= Len(result)
    /\ TouchesSuper(result[i], super)
    /\ result' = SwapRemove(result, i)
    /\ swapIn' = (i < Len(result))
    /\ swapPurged' = (swapPurged \/ swapIn)
    /\ UNCHANGED <<points, super, pts, k, ts, edges, i, pc, ts0, result0, seen>>

\* lines 124, 135: return result
Return ==
    /\ pc = "purge"
    /\ i > Len(result)
    /\ pc' = "done"
    /\ UNCHANGED <<points, super, pts, k, ts, result, edges, i, hist>>

Next ==
    \/ Start
    \/ RoundStart
    \/ ScanFinalize
    \/ ScanInvalidate
    \/ ScanKeep
    \/ Dedup
    \/ Build
    \/ AppendActive
    \/ PurgeKeep
    \/ PurgeRemove
    \/ Return

Spec == Init /\ [][Next]_vars

(***************************************************************************)
(* Exact integer geometry used to state the properties.  It does not use   *)
(* the cached circle of a Triangle.                                        *)
(***************************************************************************)
Range(s) == {s[m] : m \in DOMAIN s}

Count(s, x) == Cardinality({m \in DOMAIN s : s[m] = x})

SameBag(a, b) == \A x \in Range(a) \cup Range(b) : Count(a, x) = Count(b, x)

SubBag(a, b) == \A x \in Range(a) : Count(a, x) <= Count(b, x)

Sign(x) == IF x > 0 THEN 1 ELSE IF x < 0 THEN -1 ELSE 0

\* twice the signed area of a, b, c
Cross(a, b, c) == (b.X - a.X) * (c.Y - a.Y) - (c.X - a.X) * (b.Y - a.Y)

Area2(t) == Abs(Cross(t.A, t.B, t.C))

RECURSIVE SumArea2(_)
SumArea2(s) == IF s = <<>> THEN 0 ELSE Area2(Head(s)) + SumArea2(Tail(s))

\* 1: q is strictly inside the circle through the vertices of t, 0: on it,
\* -1: strictly outside (t not degenerate)
InCircle(t, q) ==
    LET adx == t.A.X - q.X  ady == t.A.Y - q.Y
        bdx == t.B.X - q.X  bdy == t.B.Y - q.Y
        cdx == t.C.X - q.X  cdy == t.C.Y - q.Y
        ad2 == adx * adx + ady * ady
        bd2 == bdx * bdx + bdy * bdy
        cd2 == cdx * cdx + cdy * cdy
        det == adx * (bdy * cd2 - cdy * bd2) - ady * (bdx * cd2 - cdx * bd2)
               + ad2 * (bdx * cdy - cdx * bdy)
    IN Sign(det) * Sign(Cross(t.A, t.B, t.C))

Vertices(t) == {t.A, t.B, t.C}

SuperVertices == {super.A, super.B, super.C}

StrictlyInside(q, t) ==
    LET s1 == Sign(Cross(t.A, t.B, q))
        s2 == Sign(Cross(t.B, t.C, q))
        s3 == Sign(Cross(t.C, t.A, q))
    IN s1 # 0 /\ s1 = s2 /\ s2 = s3

InsideOrOn(q, t) ==
    LET s1 == Sign(Cross(t.A, t.B, q))
        s2 == Sign(Cross(t.B, t.C, q))
        s3 == Sign(Cross(t.C, t.A, q))
    IN ~(({s1, s2, s3} \cap {1}) # {} /\ ({s1, s2, s3} \cap {-1}) # {})

Distinct(s) == \A a, b \in DOMAIN s : a # b => s[a] # s[b]

NoThreeCollinear(S) ==
    \A a, b, c \in S : (a # b /\ a # c /\ b # c) => Cross(a, b, c) # 0

AllInsideSuper == \A m \in DOMAIN points : StrictlyInside(points[m], super)

\* points strictly inside super, no duplicates, no three collinear
ValidInput == AllInsideSuper /\ Distinct(points) /\ NoThreeCollinear(Range(points))

\* ... and no three of the input points and super vertices collinear
ValidInputWithSuper ==
    AllInsideSuper /\ Distinct(points) /\ NoThreeCollinear(Range(points) \cup SuperVertices)

\* the directed edges of the convex hull of S, counter-clockwise
HullEdges(S) ==
    {e \in S \X S : e[1] # e[2] /\ \A c \in S \ {e[1], e[2]} : Cross(e[1], e[2], c) > 0}

RECURSIVE SumShoelace(_)
SumShoelace(E) ==
    IF E = {} THEN 0
    ELSE LET e == CHOOSE x \in E : TRUE
         IN (e[1].X * e[2].Y - e[2].X * e[1].Y) + SumShoelace(E \ {e})

\* twice the area of the convex hull of S (no three points of S collinear)
HullArea2(S) == SumShoelace(HullEdges(S))

\* an edge of t has t on one side and u on the other
Separates(t, u) ==
    \E e \in {<<t.A, t.B, t.C>>, <<t.B, t.C, t.A>>, <<t.C, t.A, t.B>>} :
        \A v \in Vertices(u) :
            Sign(Cross(e[1], e[2], v)) * Sign(Cross(e[1], e[2], e[3])) <= 0

\* t and u (of positive area) share a region of positive area
Overlap(t, u) == ~(Separates(t, u) \/ Separates(u, t))

ConvexPosition(S) ==
    /\ NoThreeCollinear(S)
    /\ \A q \in S : \A a, b, c \in S \ {q} :
           (a # b /\ a # c /\ b # c) => ~InsideOrOn(q, Tri(a, b, c))

\* the scan loop of the current round is over
ScanDone == pc = "scan" /\ i > Len(ts)

SameEdge(e, f) == {e.A, e.B} = {f.A, f.B}

Occ(es, e) == Cardinality({m \in DOMAIN es : SameEdge(es[m], e)})

(***************************************************************************)
(* Properties.                                                             *)
(***************************************************************************)

\* C1: for valid input (points strictly inside super, no duplicates, no three
\* collinear) no input point other than a returned triangle's own vertices
\* lies strictly inside the circle through its vertices.
C1_EmptyCircumcircle ==
    (pc = "done" /\ ValidInput) =>
        \A m \in DOMAIN result : \A q \in Range(points) \ Vertices(result[m]) :
            InCircle(result[m], q) # 1

\* C2: for valid input of at least 3 points the returned triangles partition
\* the convex hull of the points: their areas sum to the area of the hull and
\* no two of them overlap in a region of positive area.
C2_PartitionsHull ==
    (pc = "done" /\ ValidInput /\ Len(points) >= 3) =>
        /\ SumArea2(result) = HullArea2(Range(points))
        /\ \A a, b \in DOMAIN result : a # b => ~Overlap(result[a], result[b])

\* C3: 4 distinct points in convex position strictly inside super give
\* exactly 2 triangles.
C3_ConvexFourGivesTwo ==
    (pc = "done" /\ Len(points) = 4 /\ Distinct(points) /\ AllInsideSuper
        /\ ConvexPosition(Range(points))) => Len(result) = 2

\* C4: for every input, no returned triangle has a vertex equal to super.A,
\* super.B or super.C, also when the filter swapped a triangle into the slot
\* it had just vacated.
C4_NoSuperVertexReturned ==
    pc = "done" => \A m \in DOMAIN result : Vertices(result[m]) \cap SuperVertices = {}

\* C4 witness: the call returned a triangle, and the filter removed a triangle
\* that it had swapped into a vacated slot.
C4_Witness == pc = "done" /\ swapPurged /\ result # <<>>

\* C5: with 0, 1 or 2 distinct points strictly inside super every triangle
\* built has a vertex of super, and the returned list is empty.
C5_FewPointsEmpty ==
    (Len(points) < 3 /\ Distinct(points) /\ AllInsideSuper) =>
        /\ \A t \in Range(ts) \cup Range(result) : Vertices(t) \cap SuperVertices # {}
        /\ pc = "done" => result = <<>>

\* C5 witness: a call with 2 distinct points inside super built triangles,
\* purged some and returned the empty list.
C5_Witness ==
    /\ pc = "done" /\ Len(points) = 2 /\ Distinct(points) /\ AllInsideSuper
    /\ Len(ts) > 1 /\ swapPurged /\ result = <<>>

\* C6: after the deduplication of a round the edge list holds exactly the
\* edges that occur exactly once, up to the order of their end points, among
\* the edges recorded by the scan; no copy of an edge that occurs twice or
\* more survives.
C6_DedupKeepsExactlyOnce ==
    [][(pc = "scan" /\ pc' = "build") =>
          /\ \A n \in DOMAIN edges' : Occ(edges, edges'[n]) = 1 /\ Occ(edges', edges'[n]) = 1
          /\ \A m \in DOMAIN edges : Occ(edges, edges[m]) = 1 => Occ(edges', edges[m]) = 1]_vars

\* C7: points are processed in non-decreasing X order, and once a triangle
\* has been moved to result during the round of p, neither p nor any point
\* processed after p lies inside or on its circumcircle.
C7_EarlyFinalizationSound ==
    pc \in {"round", "scan", "build"} =>
        /\ \A a, b \in DOMAIN pts : a < b => pts[a].X <= pts[b].X
        /\ \A t \in Range(result) : \A m \in k..Len(pts) :
               Cross(t.A, t.B, t.C) # 0 /\ InCircle(t, pts[m]) = -1

\* C7 witness: for valid input, a triangle was finalized in the round of a
\* point that is not the last one.
C7_Witness ==
    pc = "scan" /\ k < Len(pts) /\ Len(result) > Len(result0) /\ ValidInput

\* C8: for valid input with no three of the input points and super vertices
\* collinear, after every completed round the active and the finalized
\* triangles tile super: their areas sum to the area of super.
C8_TilesSuper ==
    (pc = "round" /\ k > 1 /\ ValidInputWithSuper) =>
        SumArea2(ts) + SumArea2(result) = Area2(super)

\* C9: in the scan of a round every triangle that was active when the round
\* began is examined exactly once, and ends as exactly one of: appended to
\* result, removed with its own three edges recorded, or left active; until
\* the next round begins no other triangle is examined (in particular none of
\* the triangles built for the point of the round).
C9_ScanVisitsOnce ==
    LET p == pts[k]
        Fz(t) == FinalizeCond(t, p)
        Iv(t) == ~FinalizeCond(t, p) /\ CircumcircleContains(t, p)
        Kp(t) == ~FinalizeCond(t, p) /\ ~CircumcircleContains(t, p)
        inv == SelectSeq(seen, Iv)
    IN /\ pc \in {"scan", "build"} => SubBag(seen, ts0)
       /\ ScanDone =>
            /\ SameBag(seen, ts0)
            /\ result = result0 \o SelectSeq(seen, Fz)
            /\ Len(edges) = 3 * Len(inv)
            /\ \A m \in DOMAIN inv :
                  /\ edges[3 * m - 2] = Edge(inv[m].A, inv[m].B)
                  /\ edges[3 * m - 1] = Edge(inv[m].A, inv[m].C)
                  /\ edges[3 * m] = Edge(inv[m].B, inv[m].C)
            /\ SameBag(ts, SelectSeq(seen, Kp))
       /\ pc \in {"build", "round"} => SameBag(seen, ts0)

\* C9 witness: a scan ended in which removals reordered the active list and
\* all three outcomes happened.
C9_Witness ==
    /\ ScanDone /\ seen # ts0
    /\ Len(result) > Len(result0) /\ edges # <<>> /\ ts # <<>>

\* C10: a point whose squared distance to the cached circumcenter of an active
\* triangle equals its squared radius is treated as inside: the triangle is
\* removed with its three edges recorded, neither finalized nor left active.
C10_BoundaryIsInside ==
    ScanDone =>
        \A t \in Range(ts0) :
            FEq(Dist2(t, pts[k]), t.radius2) =>
                /\ t \notin Range(ts)
                /\ t \notin Range(SubSeq(result, Len(result0) + 1, Len(result)))
                /\ {Edge(t.A, t.B), Edge(t.A, t.C), Edge(t.B, t.C)} \subseteq Range(edges)

\* C10 witness: a scan ended whose point lies exactly on the circumcircle of a
\* triangle of finite radius of which it is not a vertex.
C10_Witness ==
    /\ ScanDone
    /\ \E t \in Range(ts0) :
          /\ FEq(Dist2(t, pts[k]), t.radius2)
          /\ t.radius2.k = "fin"
          /\ pts[k] \notin Vertices(t)
          /\ Cross(t.A, t.B, t.C) # 0

====
